---------------------------- MODULE Spec2Model ----------------------------
(***************************************************************************)
(* A model of the Checks evaluator factory (EvaluatorFactory.create,       *)
(* checksEvalInstance, evaluateInstances) and of the generation            *)
(* orchestrator exercised by TestLive (streaming, tool calling).           *)
(*                                                                         *)
(* JavaScript runs each async function to completion between awaits, so    *)
(* one action is the code between two awaits of one invocation; several    *)
(* invocations interleave at the awaits.                                   *)
(***************************************************************************)
EXTENDS Integers, Sequences, FiniteSets, TLC

\* Number of evaluator invocations that may be in flight at once.
NumInv == 2
\* Largest testCaseId of a datapoint.
MaxId == 2
\* Largest value a numeric field of a provider response takes.
MaxScore == 1
\* Largest configurable maximum number of turns of a generation call.
MaxTurns == 2
\* Largest number of chunks in one model response.
MaxChunks == 2
\* Largest argument the model passes to a tool (the smallest is 2).
MaxArg == 3

Invocations == 1..NumInv
TestCaseIds == 1..MaxId
\* The content of test case n.
InputOf(n) == "content of case " \o ToString(n)
ScoreVals == 0..MaxScore

VARIABLES
    checksEval,    \* config.checksEval of the evaluator
    pc,            \* per invocation: the await it is suspended at
    arg,           \* per invocation: the datapoint it was called with
    locals,        \* per closure frame: datapoint, request, response.data
    span,          \* per invocation: the metadata of the span it opened
    sent,          \* per invocation: the client.request calls issued
    ext,           \* per invocation: the outcomes its collaborators gave
    handlerCalls,  \* per invocation: calls of responseHandler
    outcome,       \* per invocation: what the evaluator returned or threw
    gpc,           \* the state of the orchestrated generation call
    gcfg,          \* the call's options and the mock model's behaviour
    ghistory,      \* GenerationState: the messages exchanged so far
    gturnsLeft,    \* GenerationState: the remaining turn budget
    gmodelCalls,   \* invocations of the model action
    gtoolCalls,    \* invocations of tools: name and input, in order
    ganswer,       \* the chunks the model gives in the turn under way
    gemitted,      \* the chunks the model has emitted in this turn
    gpending,      \* the emitted chunk the callback has not yet been given
    gdelivered,    \* the chunks handed to the streaming callback
    gresponse,     \* the assembled model message of this turn, if any
    gresult,       \* the final result, if any
    gerror         \* the failure of the call, if any

evalVars == <<checksEval, pc, arg, locals, span, sent, ext, handlerCalls, outcome>>

genVars ==
    <<gpc, gcfg, ghistory, gturnsLeft, gmodelCalls, gtoolCalls, ganswer,
      gemitted, gpending, gdelivered, gresponse, gresult, gerror>>

vars == <<evalVars, genVars>>

-----------------------------------------------------------------------------
(* Values *)

\* BaseEvalDataPoint: the test case id and the content to be scored; the
\* dataset holds one datapoint per test case.
Datapoints == {[testCaseId |-> n, input |-> InputOf(n)] : n \in TestCaseIds}

NoDatapoint == [testCaseId |-> 0, input |-> ""]

\* response.data of the provider: a JSON object with the key "score", a
\* key the schema does not know, or both.
ResponseData ==
    {[score |-> v] : v \in ScoreVals}
        \cup {[score |-> v, extra |-> 0] : v \in ScoreVals}
        \cup {[extra |-> 0]}

\* this.location and this.projectId of the factory.
location == "us-central1"

projectId == "my-project"

locationName == "projects/" \o projectId \o "/locations/" \o location

ChecksUrl == "https://checks.googleapis.com/v1alpha/aisafety:classifyContent"

EvalUrl ==
    "https://" \o location \o "-aiplatform.googleapis.com/v1beta1/"
        \o locationName \o ":evaluateInstances"

SpanName == "EvaluationService#evaluateInstances"

\* The literal body of the second request of evaluateInstances.
HardcodedBody ==
    <<<<"input", "I hate you and all people on earth">>,
      <<"policies", "HARASSMENT">>>>

\* The caller-supplied toRequest: the provider request for a datapoint.
ToRequest(datapoint) == [instance |-> datapoint.input]

\* { ...partialRequest }
ChecksRequest(partialRequest) == partialRequest

\* { location: locationName, ...partialRequest }: a later key overrides.
EvalRequest(partialRequest) == partialRequest @@ [location |-> locationName]

KeyOrder == <<"location", "instance">>

\* JSON.stringify of a request object: its key/value pairs in property order.
Stringify(request) ==
    LET keys == SelectSeq(KeyOrder, LAMBDA k : k \in DOMAIN request)
    IN  [n \in 1..Len(keys) |-> <<keys[n], request[keys[n]]>>]

\* config.responseSchema: an object with the required number "score".
Matches(data) == "score" \in DOMAIN data

\* responseSchema.parse on a matching value: unknown keys are stripped.
Parse(data) == [score |-> data.score]

\* The validation failure parse throws, as `${e}` prints it.
ZodError == "ZodError: score Required"

\* The caller-supplied responseHandler: the Score of a validated response.
ResponseHandler(response) ==
    [score |-> response.score,
     status |-> IF response.score > 0 THEN "FAIL" ELSE "PASS"]

ParseErrorNoUrl(url, e) == <<"Error parsing API response: ", e>>

\* new Error(`Error parsing ${url} API response: ${e}`)
ParseError(url, e) == <<"Error parsing ", url, " API response: ", e>>

\* What auth.getClient and client.request reject with.
AuthRejection == <<"getClient rejected">>

RequestRejection == <<"request rejected">>

SharedSlot(i) == 1

\* The closure frame of one call of the evaluator: `response`, `request` and
\* `datapoint` are locals of that call.
Slot(i) == i


-----------------------------------------------------------------------------
(* The span a call of runInNewSpan records *)

\* runInNewSpan({metadata: {name}}, ...): the metadata handed to the callback.
NewSpan ==
    [name |-> SpanName, input |-> <<>>, output |-> <<>>, error |-> <<>>,
     ended |-> FALSE]

\* The callback returned: the span is closed as it stands.
SpanEndOk(sp) == [sp EXCEPT !.ended = TRUE]

\* The callback threw: the failure is recorded and the span is closed.
SpanEndError(sp, e) == [sp EXCEPT !.error = <<e>>, !.ended = TRUE]

-----------------------------------------------------------------------------
(* The evaluator *)

NoOutcome == [kind |-> "none", value |-> <<>>, error |-> <<>>]

\* The url of the metric's request: one per strategy.
MetricUrl == IF checksEval THEN ChecksUrl ELSE EvalUrl

Observed(i, op, ok, data) ==
    ext' = [ext EXCEPT ![i] = Append(@, [op |-> op, ok |-> ok, data |-> data])]

\* The span callback throws e with the span's metadata being sp:
\* runInNewSpan records the failure, and the evaluator's promise rejects
\* with it.
Throw(i, sp, e) ==
    /\ span' = [span EXCEPT ![i] = SpanEndError(sp, e)]
    /\ outcome' = [outcome EXCEPT ![i] = [kind |-> "threw", value |-> <<>>, error |-> <<e>>]]
    /\ pc' = [pc EXCEPT ![i] = "threw"]

\* try { return responseSchema.parse(response.data) } catch (e) { throw ... },
\* then in the evaluator: return { evaluation: responseHandler(response),
\* testCaseId: datapoint.testCaseId }.  sp is the span with its output set.
ParseAndReturn(i, data, sp) ==
    IF Matches(data)
    THEN /\ span' = [span EXCEPT ![i] = SpanEndOk(sp)]
         /\ handlerCalls' = [handlerCalls EXCEPT ![i] = @ + 1]
         /\ outcome' = [outcome EXCEPT ![i] =
                [kind |-> "returned",
                 value |-> <<[evaluation |-> ResponseHandler(Parse(data)),
                              testCaseId |-> locals[Slot(i)].datapoint.testCaseId]>>,
                 error |-> <<>>]]
         /\ pc' = [pc EXCEPT ![i] = "returned"]
    ELSE /\ Throw(i, sp, ParseError(MetricUrl, ZodError))
         /\ UNCHANGED handlerCalls

\* The evaluator is called with a datapoint: toRequest, the span is opened,
\* the request is built and recorded as the span's input, and
\* auth.getClient() is awaited.
Start(i, datapoint) ==
    /\ pc[i] = "idle"
    /\ LET partialRequest == ToRequest(datapoint)
           request == IF checksEval THEN ChecksRequest(partialRequest)
                                    ELSE EvalRequest(partialRequest)
       IN  /\ locals' = [locals EXCEPT ![Slot(i)].datapoint = datapoint,
                                       ![Slot(i)].request = <<request>>]
           /\ span' = [span EXCEPT ![i] = [NewSpan EXCEPT !.input = <<request>>]]
    /\ arg' = [arg EXCEPT ![i] = datapoint]
    /\ pc' = [pc EXCEPT ![i] = "awaitClient"]
    /\ UNCHANGED genVars
    /\ UNCHANGED <<checksEval, sent, ext, handlerCalls, outcome>>

\* auth.getClient() resolved: client.request to the metric's url is awaited.
GetClientResolve(i) ==
    /\ pc[i] = "awaitClient"
    /\ Observed(i, "getClient", TRUE, <<>>)
    /\ sent' = [sent EXCEPT ![i] =
            Append(@, [url |-> MetricUrl,
                       body |-> Stringify(locals[Slot(i)].request[1])])]
    /\ pc' = [pc EXCEPT ![i] = "awaitRequest"]
    /\ UNCHANGED genVars
    /\ UNCHANGED <<checksEval, arg, locals, span, handlerCalls, outcome>>

\* auth.getClient() rejected.
GetClientReject(i) ==
    /\ pc[i] = "awaitClient"
    /\ Observed(i, "getClient", FALSE, <<>>)
    /\ Throw(i, span[i], AuthRejection)
    /\ UNCHANGED genVars
    /\ UNCHANGED <<checksEval, arg, locals, sent, handlerCalls>>

\* The metric's request resolved with response.data = data:
\* metadata.output is set; checksEvalInstance parses and returns,
\* evaluateInstances awaits its second request first.
RequestResolve(i, data) ==
    /\ pc[i] = "awaitRequest"
    /\ Observed(i, "request", TRUE, <<data>>)
    /\ locals' = [locals EXCEPT ![Slot(i)].data = <<data>>]
    /\ LET sp == [span[i] EXCEPT !.output = <<data>>]
       IN  IF checksEval
           THEN /\ ParseAndReturn(i, data, sp)
                /\ UNCHANGED sent
           ELSE /\ span' = [span EXCEPT ![i] = sp]
                /\ sent' = [sent EXCEPT ![i] =
                        Append(@, [url |-> ChecksUrl, body |-> HardcodedBody])]
                /\ pc' = [pc EXCEPT ![i] = "awaitChecks"]
                /\ UNCHANGED <<handlerCalls, outcome>>
    /\ UNCHANGED genVars
    /\ UNCHANGED <<checksEval, arg>>

\* The metric's request rejected.
RequestReject(i) ==
    /\ pc[i] = "awaitRequest"
    /\ Observed(i, "request", FALSE, <<>>)
    /\ Throw(i, span[i], RequestRejection)
    /\ UNCHANGED genVars
    /\ UNCHANGED <<checksEval, arg, locals, sent, handlerCalls>>

\* The second request of evaluateInstances resolved: its response is only
\* logged, and the first response is parsed.
ChecksResolve(i) ==
    /\ pc[i] = "awaitChecks"
    /\ Observed(i, "checksRequest", TRUE, <<>>)
    /\ ParseAndReturn(i, locals[Slot(i)].data[1], span[i])
    /\ UNCHANGED genVars
    /\ UNCHANGED <<checksEval, arg, locals, sent>>

\* The second request of evaluateInstances rejected.
ChecksReject(i) ==
    /\ pc[i] = "awaitChecks"
    /\ Observed(i, "checksRequest", FALSE, <<>>)
    /\ Throw(i, span[i], RequestRejection)
    /\ UNCHANGED genVars
    /\ UNCHANGED <<checksEval, arg, locals, sent, handlerCalls>>

InitEval ==
    /\ checksEval \in BOOLEAN
    /\ pc = [i \in Invocations |-> "idle"]
    /\ arg = [i \in Invocations |-> NoDatapoint]
    /\ locals = [i \in Invocations |->
            [datapoint |-> NoDatapoint, request |-> <<>>, data |-> <<>>]]
    /\ span = [i \in Invocations |-> NewSpan]
    /\ sent = [i \in Invocations |-> <<>>]
    /\ ext = [i \in Invocations |-> <<>>]
    /\ handlerCalls = [i \in Invocations |-> 0]
    /\ outcome = [i \in Invocations |-> NoOutcome]

NextEval ==
    \E i \in Invocations :
        \/ \E datapoint \in Datapoints : Start(i, datapoint)
        \/ GetClientResolve(i)
        \/ GetClientReject(i)
        \/ \E data \in ResponseData : RequestResolve(i, data)
        \/ RequestReject(i)
        \/ ChecksResolve(i)
        \/ ChecksReject(i)

-----------------------------------------------------------------------------
(* Messages and parts of a generation exchange *)

NoInput == [Value |-> 0, Over |-> 0]

\* The arguments a model may pass to gablorken.
ToolInputs == [Value : 2..MaxArg, Over : 2..MaxArg]

Texts == {"North ", "Pole"}

TextPart(t) ==
    [kind |-> "text", text |-> t, name |-> "", ref |-> 0, input |-> NoInput,
     output |-> 0]

ToolRequestPart(ref, name, input) ==
    [kind |-> "toolRequest", text |-> "", name |-> name, ref |-> ref,
     input |-> input, output |-> 0]

ToolResponsePart(ref, name, output) ==
    [kind |-> "toolResponse", text |-> "", name |-> name, ref |-> ref,
     input |-> NoInput, output |-> output]

Message(role, content) == [role |-> role, content |-> content]

\* ai.WithTextPrompt(...): the caller's prompt.
Prompt == Message("user", <<TextPart("what is a gablorken?")>>)

\* A chunk of a streamed text response: one or two text parts.
TextChunks ==
    {<<TextPart(t)>> : t \in Texts} \cup {<<TextPart("North "), TextPart("Pole")>>}

\* The text responses of the mock model: one to MaxChunks chunks.
TextAnswers == UNION {[1..n -> TextChunks] : n \in 1..MaxChunks}

RECURSIVE Pow(_, _)
\* math.Pow on a natural exponent.
Pow(x, n) == IF n = 0 THEN 1 ELSE x * Pow(x, n - 1)

GablorkenSwapped(input) == Pow(input.Over, input.Value)

\* The function of the tool "gablorken": math.Pow(input.Value, input.Over).
Gablorken(input) == Pow(input.Value, input.Over)

\* ai.DefineTool("gablorken", ...): the tools the registry holds.
RegisteredTools == {"gablorken"}

RECURSIVE Flatten(_)
\* The parts of a sequence of chunks, in order.
Flatten(chunks) ==
    IF chunks = <<>> THEN <<>> ELSE Head(chunks) \o Flatten(Tail(chunks))

RECURSIVE ConcatText(_)
\* The concatenation of the text of a sequence of parts.
ConcatText(parts) ==
    IF parts = <<>> THEN "" ELSE Head(parts).text \o ConcatText(Tail(parts))

FirstPartText(message) == message.content[1].text

\* out2 of the streaming test: the text of every part of the final message.
FinalText(message) == ConcatText(message.content)

-----------------------------------------------------------------------------
(* The generation orchestrator *)

ExhaustedOneEarly(turnsLeft) == turnsLeft <= 1

\* The turn budget is used up.
TurnBudgetExhausted(turnsLeft) == turnsLeft = 0

HasToolResponse(history) ==
    \E k \in 1..Len(history) : history[k].role = "tool"

\* Whether the mock model answers a request with a tool-call request.
WantsTool(history) ==
    \/ gcfg.model = "alwaysTool"
    \/ gcfg.model = "toolThenText" /\ ~HasToolResponse(history)

ToolRequests(message) ==
    SelectSeq(message.content, LAMBDA part : part.kind = "toolRequest")

\* The caller issues the generate call: GenerationState is created with the
\* prompt as the history and the configured turn budget.
Generate(model, streaming, maxTurns, input) ==
    /\ gpc = "IDLE"
    /\ gcfg' = [model |-> model, streaming |-> streaming, maxTurns |-> maxTurns,
                input |-> input]
    /\ ghistory' = <<Prompt>>
    /\ gturnsLeft' = maxTurns
    /\ gpc' = "BUILD_REQUEST"
    /\ UNCHANGED <<gmodelCalls, gtoolCalls, ganswer, gemitted, gpending,
                   gdelivered, gresponse, gresult, gerror>>
    /\ UNCHANGED evalVars

\* BUILD_REQUEST with budget left: the request is the history; one turn of
\* the budget is spent.
BuildRequest ==
    /\ gpc = "BUILD_REQUEST"
    /\ ~TurnBudgetExhausted(gturnsLeft)
    /\ gturnsLeft' = gturnsLeft - 1
    /\ gpc' = "AWAIT_RESPONSE"
    /\ UNCHANGED <<gcfg, ghistory, gmodelCalls, gtoolCalls, ganswer, gemitted,
                   gpending, gdelivered, gresponse, gresult, gerror>>
    /\ UNCHANGED evalVars

\* BUILD_REQUEST with the budget used up: TurnLimitExceededError.
TurnLimitExceeded ==
    /\ gpc = "BUILD_REQUEST"
    /\ TurnBudgetExhausted(gturnsLeft)
    /\ gerror' = "TurnLimitExceededError"
    /\ gpc' = "FAILED"
    /\ UNCHANGED <<gcfg, ghistory, gturnsLeft, gmodelCalls, gtoolCalls, ganswer,
                   gemitted, gpending, gdelivered, gresponse, gresult>>
    /\ UNCHANGED evalVars

\* AWAIT_RESPONSE: the model action is invoked with the request.  Without a
\* streaming callback the response arrives in one shot (COMPLETE); with one
\* the call enters STREAMING.
CallModel(answer) ==
    /\ gpc = "AWAIT_RESPONSE"
    /\ IF WantsTool(ghistory)
       THEN answer = <<<<ToolRequestPart(gmodelCalls + 1, "gablorken", gcfg.input)>>>>
       ELSE answer \in TextAnswers
    /\ gmodelCalls' = gmodelCalls + 1
    /\ ganswer' = answer
    /\ gemitted' = <<>>
    /\ IF gcfg.streaming
       THEN /\ gpc' = "STREAMING"
            /\ UNCHANGED gresponse
       ELSE /\ gpc' = "COMPLETE"
            /\ gresponse' = <<Message("model", Flatten(answer))>>
    /\ UNCHANGED <<gcfg, ghistory, gturnsLeft, gtoolCalls, gpending, gdelivered,
                   gresult, gerror>>
    /\ UNCHANGED evalVars

\* STREAMING: the model emits its next chunk; the previous one has been
\* handed to the callback.
EmitChunk ==
    /\ gpc = "STREAMING"
    /\ gpending = <<>>
    /\ Len(gemitted) < Len(ganswer)
    /\ gemitted' = Append(gemitted, ganswer[Len(gemitted) + 1])
    /\ gpending' = <<ganswer[Len(gemitted) + 1]>>
    /\ UNCHANGED <<gpc, gcfg, ghistory, gturnsLeft, gmodelCalls, gtoolCalls,
                   ganswer, gdelivered, gresponse, gresult, gerror>>
    /\ UNCHANGED evalVars

\* STREAMING: the callback is called with the emitted chunk and returns nil.
DeliverChunk ==
    /\ gpc = "STREAMING"
    /\ gpending # <<>>
    /\ gdelivered' = Append(gdelivered, gpending[1])
    /\ gpending' = <<>>
    /\ UNCHANGED <<gpc, gcfg, ghistory, gturnsLeft, gmodelCalls, gtoolCalls,
                   ganswer, gemitted, gresponse, gresult, gerror>>
    /\ UNCHANGED evalVars

\* STREAMING: the stream ended; the response is assembled from its chunks.
StreamEnd ==
    /\ gpc = "STREAMING"
    /\ gpending = <<>>
    /\ Len(gemitted) = Len(ganswer)
    /\ gresponse' = <<Message("model", Flatten(gemitted))>>
    /\ gpc' = "COMPLETE"
    /\ UNCHANGED <<gcfg, ghistory, gturnsLeft, gmodelCalls, gtoolCalls, ganswer,
                   gemitted, gpending, gdelivered, gresult, gerror>>
    /\ UNCHANGED evalVars

\* COMPLETE with a tool-call request among the parts: TOOL_CALLS_PENDING.
ToolCallsPending ==
    /\ gpc = "COMPLETE"
    /\ ToolRequests(gresponse[1]) # <<>>
    /\ gpc' = "TOOL_CALLS_PENDING"
    /\ UNCHANGED <<gcfg, ghistory, gturnsLeft, gmodelCalls, gtoolCalls, ganswer,
                   gemitted, gpending, gdelivered, gresponse, gresult, gerror>>
    /\ UNCHANGED evalVars

\* COMPLETE with no tool-call request: TERMINAL, the assembled response is
\* returned with the history.
Terminal ==
    /\ gpc = "COMPLETE"
    /\ ToolRequests(gresponse[1]) = <<>>
    /\ gresult' = <<[message |-> gresponse[1],
                     history |-> Append(ghistory, gresponse[1])]>>
    /\ gpc' = "TERMINAL"
    /\ UNCHANGED <<gcfg, ghistory, gturnsLeft, gmodelCalls, gtoolCalls, ganswer,
                   gemitted, gpending, gdelivered, gresponse, gerror>>
    /\ UNCHANGED evalVars

\* TOOL_CALLS_PENDING: each requested tool is resolved by name and invoked
\* with the request's arguments; the model message and the tool-response
\* message are appended to the history; back to BUILD_REQUEST.
InvokeTools ==
    /\ gpc = "TOOL_CALLS_PENDING"
    /\ LET requests == ToolRequests(gresponse[1])
           responses ==
               [n \in 1..Len(requests) |->
                   ToolResponsePart(requests[n].ref, requests[n].name,
                                    Gablorken(requests[n].input))]
       IN  IF \A n \in 1..Len(requests) : requests[n].name \in RegisteredTools
           THEN /\ gtoolCalls' = gtoolCalls \o
                       [n \in 1..Len(requests) |->
                           [name |-> requests[n].name, input |-> requests[n].input]]
                /\ ghistory' = ghistory \o <<gresponse[1], Message("tool", responses)>>
                /\ gpc' = "BUILD_REQUEST"
                /\ UNCHANGED gerror
           ELSE /\ gerror' = "ToolNotFoundError"
                /\ gpc' = "FAILED"
                /\ UNCHANGED <<gtoolCalls, ghistory>>
    /\ UNCHANGED <<gcfg, gturnsLeft, gmodelCalls, ganswer, gemitted, gpending,
                   gdelivered, gresponse, gresult>>
    /\ UNCHANGED evalVars

NoCfg == [model |-> "", streaming |-> FALSE, maxTurns |-> 0, input |-> NoInput]

InitGen ==
    /\ gpc = "IDLE"
    /\ gcfg = NoCfg
    /\ ghistory = <<>>
    /\ gturnsLeft = 0
    /\ gmodelCalls = 0
    /\ gtoolCalls = <<>>
    /\ ganswer = <<>>
    /\ gemitted = <<>>
    /\ gpending = <<>>
    /\ gdelivered = <<>>
    /\ gresponse = <<>>
    /\ gresult = <<>>
    /\ gerror = ""

NextGen ==
    \/ \E model \in {"text", "toolThenText", "alwaysTool"}, streaming \in BOOLEAN,
          maxTurns \in 1..MaxTurns, input \in ToolInputs :
            Generate(model, streaming, maxTurns, input)
    \/ BuildRequest
    \/ TurnLimitExceeded
    \/ \E answer \in TextAnswers \cup
            {<<<<ToolRequestPart(gmodelCalls + 1, "gablorken", gcfg.input)>>>>} :
            CallModel(answer)
    \/ EmitChunk
    \/ DeliverChunk
    \/ StreamEnd
    \/ ToolCallsPending
    \/ Terminal
    \/ InvokeTools

-----------------------------------------------------------------------------
(* Specifications *)

Init == InitEval /\ InitGen

\* Concurrent invocations of one evaluator.
Spec == Init /\ [][NextEval]_vars

\* One orchestrated generation call.
SpecGen == Init /\ [][NextGen]_vars

\* The orchestrator is a sequential program: it takes its next step.
FairGen == SpecGen /\ WF_vars(NextGen)

-----------------------------------------------------------------------------
(* Properties of the evaluator *)

Finished(i) == pc[i] \in {"returned", "threw"}

\* The response.data the metric's endpoint gave invocation i, if it gave one.
MetricResponses(i) ==
    {ext[i][k].data[1] : k \in {n \in 1..Len(ext[i]) :
                                    ext[i][n].op = "request" /\ ext[i][n].ok}}

Rejected(i) == {k \in 1..Len(ext[i]) : ~ext[i][k].ok}

IsParseError(e) == e[1] = "Error parsing "

NamesUrl(e, url) == \E k \in 1..Len(e) : e[k] = url

\* The endpoint the last external call of invocation i went to.
OriginUrl(i) ==
    IF ext[i][Len(ext[i])].op = "checksRequest" THEN ChecksUrl ELSE MetricUrl

\* The request an evaluation of datapoint sends under the configured strategy.
RequestFor(datapoint) ==
    IF checksEval THEN ChecksRequest(ToRequest(datapoint))
                  ELSE EvalRequest(ToRequest(datapoint))

\* C1: once the metric's endpoint has answered an evaluation with a response
\* that matches the schema, the evaluation ends returning the testCaseId of
\* its datapoint and responseHandler of the validated response, whatever
\* else happens outside.
C1_MatchingResponseReturnsScore ==
    \A i \in Invocations :
        \A data \in MetricResponses(i) :
            (Finished(i) /\ Matches(data)) =>
                /\ outcome[i].kind = "returned"
                /\ outcome[i].value[1].testCaseId = arg[i].testCaseId
                /\ outcome[i].value[1].evaluation = ResponseHandler(Parse(data))

\* C2: an evaluation whose metric response does not match the schema ends
\* with a parse error, responseHandler uncalled and no result returned.
C2_MismatchIsParseError ==
    \A i \in Invocations :
        \A data \in MetricResponses(i) :
            (Finished(i) /\ ~Matches(data)) =>
                /\ outcome[i].kind = "threw"
                /\ IsParseError(outcome[i].error[1])
                /\ handlerCalls[i] = 0
                /\ outcome[i].value = <<>>

\* C3: a finished span carries an output or an error, never both and never
\* neither.
C3_SpanOutputXorError ==
    \A i \in Invocations :
        span[i].ended => ((span[i].output # <<>>) # (span[i].error # <<>>))

\* C4: an evaluation that produced its Score issued exactly one
\* client.request call.
C4_OneRequestPerScore ==
    \A i \in Invocations :
        outcome[i].kind = "returned" => Len(sent[i]) = 1

\* C5 as stated: every failure names the url of the endpoint it came from.
C5_EveryFailureNamesUrl ==
    \A i \in Invocations :
        outcome[i].kind = "threw" => NamesUrl(outcome[i].error[1], OriginUrl(i))

\* C5 as amended: a failure of schema validation is thrown as an error that
\* names the url of the metric's endpoint; a rejection of auth.getClient or
\* client.request is thrown unchanged, with no url added; a rejection ends
\* the evaluation (nothing is swallowed, nothing is issued after it) and no
\* url is requested twice.
C5_ParseFailureNamesUrl ==
    \A i \in Invocations :
        /\ \A k \in Rejected(i) :
              /\ k = Len(ext[i])
              /\ outcome[i].kind = "threw"
              /\ outcome[i].error[1] =
                    (IF ext[i][k].op = "getClient" THEN AuthRejection
                                                   ELSE RequestRejection)
        /\ \A data \in MetricResponses(i) :
              (Finished(i) /\ Rejected(i) = {} /\ ~Matches(data)) =>
                  /\ outcome[i].kind = "threw"
                  /\ IsParseError(outcome[i].error[1])
                  /\ NamesUrl(outcome[i].error[1], MetricUrl)
        /\ \A k, n \in 1..Len(sent[i]) : sent[i][k].url = sent[i][n].url => k = n
        /\ Cardinality({k \in 1..Len(ext[i]) : ext[i][k].op = "getClient"}) <= 1

C5_Witness ==
    \E i, j \in Invocations :
        /\ outcome[i].kind = "threw"
        /\ Rejected(i) = {}
        /\ NamesUrl(outcome[i].error[1], MetricUrl)
        /\ outcome[j].kind = "threw"
        /\ outcome[j].error[1] = RequestRejection

\* C6: whatever the interleaving, an invocation succeeds exactly when its own
\* collaborators all resolved and its own response matches the schema, and
\* then returns the testCaseId of its own datapoint and the Score of its own
\* response.
C6_InvocationsIndependent ==
    \A i \in Invocations :
        Finished(i) =>
            /\ (outcome[i].kind = "returned") <=>
                  (Rejected(i) = {} /\ \A data \in MetricResponses(i) : Matches(data))
            /\ outcome[i].kind = "returned" =>
                  /\ outcome[i].value[1].testCaseId = arg[i].testCaseId
                  /\ \A data \in MetricResponses(i) :
                        outcome[i].value[1].evaluation = ResponseHandler(Parse(data))

C6_Witness ==
    \E i, j \in Invocations :
        /\ pc[i] = "returned"
        /\ pc[j] = "threw"
        /\ arg[i].testCaseId # arg[j].testCaseId
        /\ MetricResponses(i) # MetricResponses(j)
        /\ MetricResponses(j) # {}

\* C10: every request of an evaluator goes to the endpoint config.checksEval
\* selects, with a body built from toRequest(datapoint), and a returned
\* value is the schema-checked response of that endpoint.
C10_OnlySelectedEndpoint ==
    \A i \in Invocations :
        /\ \A k \in 1..Len(sent[i]) :
              /\ sent[i][k].url = MetricUrl
              /\ sent[i][k].body = Stringify(RequestFor(arg[i]))
        /\ outcome[i].kind = "returned" =>
              \A data \in MetricResponses(i) :
                  outcome[i].value[1].evaluation = ResponseHandler(Parse(data))

-----------------------------------------------------------------------------
(* Properties of the generation orchestrator *)

HasPart(message, kind) ==
    \E n \in 1..Len(message.content) : message.content[n].kind = kind

C9_TurnLimit ==
    /\ [](gcfg.model = "alwaysTool" =>
            /\ gpc # "TERMINAL"
            /\ gmodelCalls <= gcfg.maxTurns
            /\ gpc = "FAILED" =>
                  /\ gerror = "TurnLimitExceededError"
                  /\ gmodelCalls = gcfg.maxTurns)
    /\ (gcfg.model = "alwaysTool") ~> (gpc = "FAILED")

C9_Witness ==
    /\ gcfg.model = "alwaysTool"
    /\ gpc = "FAILED"
    /\ gerror = "TurnLimitExceededError"
    /\ gmodelCalls >= 2
    /\ Len(gtoolCalls) = gmodelCalls

=============================================================================
